---- MODULE Spec2Model ----
(***************************************************************************)
(* Model of chatter (src/lib.rs): an edge worker whose three axum handlers *)
(* (root, get_messages, post_messages) forward every call through          *)
(* fetch_chatroom to the Durable Object Chatroom, which keeps the message  *)
(* log in memory.                                                          *)
(*                                                                         *)
(* A JSON text is a sequence of characters.  The structural characters     *)
(* are the strings "{", "}", "[", "]", ":" and ","; DQ is the double quote *)
(* and BS the backslash; the field names content and messages and the      *)
(* literal null are written as one character each.                         *)
(*                                                                         *)
(* The object runs one fetch at a time until the fetch awaits: the POST    *)
(* branch awaits req.text() before it pushes, and the platform delivers    *)
(* other requests to the object during that await.  The object lives for   *)
(* the whole behaviour; its eviction, which would empty the log that it    *)
(* keeps in memory only, is not part of the model.                         *)
(***************************************************************************)
EXTENDS Integers, Sequences, FiniteSets, TLC

\* Number of calls (callers) of one behaviour.
NumReqs == 2

\* Number of failures of the platform (directory, transport) of one behaviour.
MaxFaults == 1

Reqs == 1..NumReqs

DQ == "dquote"
BS == "backslash"

CHATROOM == "CHATROOM"

\* ------------------------------------------------------------------------
\* serde_json, as far as the program uses it

Err == [ok |-> FALSE]

Ok(v) == [ok |-> TRUE, val |-> v]

RECURSIVE escape(_)
\* serde_json's string escaping: a quote and a backslash get a backslash.
escape(s) ==
  IF s = <<>> THEN <<>>
  ELSE (IF Head(s) \in {DQ, BS} THEN <<BS, Head(s)>> ELSE <<Head(s)>>)
       \o escape(Tail(s))

quote(s) == <<DQ>> \o escape(s) \o <<DQ>>

\* serde_json::to_string(&Message): derive(Serialize) of struct Message.
to_string_Message(m) ==
  <<"{">> \o quote(<<"content">>) \o <<":">> \o quote(m.content) \o <<"}">>

RECURSIVE JoinMessages(_)
JoinMessages(ms) ==
  IF ms = <<>> THEN <<>>
  ELSE IF Len(ms) = 1 THEN to_string_Message(ms[1])
  ELSE to_string_Message(ms[1]) \o <<",">> \o JoinMessages(Tail(ms))

\* Serialization of struct MessageList (Response::from_json).
to_string_MessageList(ms) ==
  <<"{">> \o quote(<<"messages">>) \o <<":", "[">> \o JoinMessages(ms)
  \o <<"]", "}">>

RECURSIVE ScanStringRaw(_, _, _)
\* A reader that keeps the backslash of an escaped character.
ScanStringRaw(s, i, acc) ==
  IF i > Len(s) THEN [ok |-> FALSE]
  ELSE IF s[i] = DQ THEN [ok |-> TRUE, val |-> acc, next |-> i + 1]
  ELSE IF s[i] = BS
    THEN IF i + 1 <= Len(s) /\ s[i + 1] \in {DQ, BS}
         THEN ScanStringRaw(s, i + 2, acc \o <<BS, s[i + 1]>>)
         ELSE [ok |-> FALSE]
  ELSE ScanStringRaw(s, i + 1, Append(acc, s[i]))

RECURSIVE ScanString(_, _, _)
\* Reads the characters of a string literal up to its closing quote.
ScanString(s, i, acc) ==
  IF i > Len(s) THEN [ok |-> FALSE]
  ELSE IF s[i] = DQ THEN [ok |-> TRUE, val |-> acc, next |-> i + 1]
  ELSE IF s[i] = BS
    THEN IF i + 1 <= Len(s) /\ s[i + 1] \in {DQ, BS}
         THEN ScanString(s, i + 2, Append(acc, s[i + 1]))
         ELSE [ok |-> FALSE]
  ELSE ScanString(s, i + 1, Append(acc, s[i]))

ParseString(s, i) ==
  IF i <= Len(s) /\ s[i] = DQ THEN ScanString(s, i + 1, <<>>)
  ELSE [ok |-> FALSE]

\* The element of a set of one element. The parsers bind each intermediate
\* result with it, x \in {e}, so that the result is computed once wherever
\* the parser is evaluated.
Only(S) == CHOOSE x \in S : TRUE

RECURSIVE ParseMembers(_, _, _)
\* The members "key":"value" of an object, up to its closing brace.
ParseMembers(s, i, acc) ==
  Only({ IF ~k.ok \/ k.next > Len(s) \/ s[k.next] # ":" THEN [ok |-> FALSE]
         ELSE Only({ IF ~v.ok \/ v.next > Len(s) THEN [ok |-> FALSE]
                     ELSE IF s[v.next] = ","
                       THEN ParseMembers(s, v.next + 1,
                                         Append(acc, <<k.val, v.val>>))
                     ELSE IF s[v.next] = "}"
                       THEN [ok |-> TRUE,
                             val |-> Append(acc, <<k.val, v.val>>),
                             next |-> v.next + 1]
                     ELSE [ok |-> FALSE]
                     : v \in {ParseString(s, k.next + 1)} })
         : k \in {ParseString(s, i)} })

ParseObject(s, i) ==
  IF i > Len(s) \/ s[i] # "{" THEN [ok |-> FALSE]
  ELSE IF i + 1 <= Len(s) /\ s[i + 1] = "}"
    THEN [ok |-> TRUE, val |-> <<>>, next |-> i + 2]
  ELSE ParseMembers(s, i + 1, <<>>)

\* derive(Deserialize) of struct Message, starting at position i: exactly
\* one field content is required, unknown fields are ignored.
ParseMessage(s, i) ==
  Only({ IF ~o.ok THEN [ok |-> FALSE]
         ELSE Only({ IF Cardinality(cs) # 1 THEN [ok |-> FALSE]
                     ELSE [ok |-> TRUE,
                           val |-> [content |->
                                      o.val[CHOOSE j \in cs : TRUE][2]],
                           next |-> o.next]
                     : cs \in {{j \in 1..Len(o.val) :
                                  o.val[j][1] = <<"content">>}} })
         : o \in {ParseObject(s, i)} })

\* serde_json::from_str::<Message>
from_str_Message(s) ==
  Only({ IF p.ok /\ p.next = Len(s) + 1 THEN Ok(p.val) ELSE Err
         : p \in {ParseMessage(s, 1)} })

RECURSIVE ParseElems(_, _, _)
\* The elements of the array of messages, up to its closing bracket.
ParseElems(s, i, acc) ==
  Only({ IF ~m.ok \/ m.next > Len(s) THEN [ok |-> FALSE]
         ELSE IF s[m.next] = ","
           THEN ParseElems(s, m.next + 1, Append(acc, m.val))
         ELSE IF s[m.next] = "]"
           THEN [ok |-> TRUE, val |-> Append(acc, m.val),
                 next |-> m.next + 1]
         ELSE [ok |-> FALSE]
         : m \in {ParseMessage(s, i)} })

\* serde_json::from_str::<MessageList>
from_str_MessageList(s) ==
  IF Len(s) < 8 \/ SubSeq(s, 1, 6) # <<"{", DQ, "messages", DQ, ":", "[">>
  THEN Err
  ELSE Only({ IF a.ok /\ a.next = Len(s) /\ s[Len(s)] = "}"
              THEN Ok(a.val) ELSE Err
              : a \in {IF s[7] = "]"
                       THEN [ok |-> TRUE, val |-> <<>>, next |-> 8]
                       ELSE ParseElems(s, 7, <<>>)} })

\* ------------------------------------------------------------------------
\* Inputs

\* Content strings of the messages that callers post.
Contents == {<<"a">>, <<"b", DQ, BS>>}

\* A body that has a second field next to content.
ExtraFieldBody ==
  <<"{">> \o quote(<<"content">>) \o <<":">> \o quote(<<"a">>) \o <<",">>
  \o quote(<<"x">>) \o <<":">> \o quote(<<"b">>) \o <<"}">>

\* The body {} without the field content.
EmptyObjectBody == <<"{", "}">>

\* Bodies of the external POST calls.
Bodies ==
  {to_string_Message([content |-> c]) : c \in Contents}
  \cup {ExtraFieldBody, EmptyObjectBody}

\* worker::Method
Methods ==
  {"HEAD", "GET", "POST", "PUT", "PATCH", "DELETE", "OPTIONS", "CONNECT",
   "TRACE"}

\* ------------------------------------------------------------------------
\* State

VARIABLES
  messages,   \* Chatroom.messages of every Durable Object created so far
  pc,         \* where each call is
  call,       \* the external call: who sent it, method, path, body
  sent,       \* the stub and the worker::Request passed to it
  result,     \* what Chatroom::fetch answered
  outcome,    \* what the external caller got
  arrivals,   \* history: the calls in the order they reached an object
  pushed,     \* history: per object, the calls in the order of their push
  obs,        \* history: what was acknowledged when a call was issued
  faults      \* history: the number of failures of the platform so far

vars ==
  <<messages, pc, call, sent, result, outcome, arrivals, pushed, obs,
    faults>>

NoRequest == [method |-> "none", path |-> "none", body |-> <<>>]

NoCall == [origin |-> "none", method |-> "none", path |-> "none",
           body |-> <<>>]

NoSent == [stub |-> <<>>, req |-> NoRequest]

NoResult == [kind |-> "none", text |-> <<>>]

NoOutcome == [kind |-> "none", messages |-> <<>>, text |-> <<>>]

\* The handler returned axum::Json(parsed).
JsonOutcome(ms) == [kind |-> "json", messages |-> ms, text |-> <<>>]

\* The handler returned a text.
RawOutcome(t) == [kind |-> "raw", messages |-> <<>>, text |-> t]

\* The Json extractor rejected the body; the handler did not run.
Rejected == [kind |-> "InvalidRequestBody", messages |-> <<>>, text |-> <<>>]

\* The handler panicked in unwrap(): no response was built.
Panicked == [kind |-> "panic", messages |-> <<>>, text |-> <<>>]

\* DurableObjectNamespace::id_from_name: the same name gives the same id.
id_from_name(name) == <<"name", name>>

\* A new object that starts with a placeholder message.
Chatroom_new_seeded == <<[content |-> <<>>]>>

\* The log of the object with this id; an object that was not created yet
\* starts with Chatroom::new.
Chatroom_new == <<>>

\* An object that starts anew with every request.
LogOfFresh(id) == Chatroom_new

LogOf(id) == IF id \in DOMAIN messages THEN messages[id] ELSE Chatroom_new

PushedOf(id) == IF id \in DOMAIN pushed THEN pushed[id] ELSE <<>>

TheLog == LogOf(id_from_name(CHATROOM))

ThePushed == PushedOf(id_from_name(CHATROOM))

\* Sets the value of f at x, extending the domain of f when needed.
Put(f, x, v) == [y \in DOMAIN f \cup {x} |-> IF y = x THEN v ELSE f[y]]

Init ==
  /\ messages = << >>
  /\ pc = [r \in Reqs |-> "idle"]
  /\ call = [r \in Reqs |-> NoCall]
  /\ sent = [r \in Reqs |-> NoSent]
  /\ result = [r \in Reqs |-> NoResult]
  /\ outcome = [r \in Reqs |-> NoOutcome]
  /\ arrivals = <<>>
  /\ pushed = << >>
  /\ obs = [r \in Reqs |-> [acked |-> {}, len |-> 0]]
  /\ faults = 0

\* Calls are numbered in the order they are issued.
CanIssue(r) ==
  /\ pc[r] = "idle"
  /\ \A q \in Reqs : q < r => pc[q] # "idle"

\* The calls acknowledged with a log so far, and the length of the log.
Observe(r) ==
  obs' = [obs EXCEPT ![r] =
            [acked |-> {q \in Reqs : pc[q] = "done"
                                     /\ outcome[q].kind = "json"},
             len |-> Len(TheLog)]]

\* A stub of an object of its own for every call.
get_stub_unique(r) == <<"unique", r>>

\* The stub that fetch_chatroom obtains.
get_stub(r) == id_from_name(CHATROOM)

\* A fetch_chatroom that sends the request although the directory failed.
fetch_chatroom_send_anyway(r, req, dirOk) ==
  /\ sent' = [sent EXCEPT ![r] = [stub |-> get_stub(r), req |-> req]]
  /\ pc' = [pc EXCEPT ![r] = "sent"]
  /\ IF dirOk THEN UNCHANGED faults
     ELSE faults < MaxFaults /\ faults' = faults + 1
  /\ UNCHANGED outcome

\* fetch_chatroom up to the await of stub.fetch_with_request, and the
\* unwrap() of the handler when the namespace, the id or the stub fails.
fetch_chatroom(r, req, dirOk) ==
  IF dirOk
  THEN /\ sent' = [sent EXCEPT ![r] = [stub |-> get_stub(r), req |-> req]]
       /\ pc' = [pc EXCEPT ![r] = "sent"]
       /\ UNCHANGED <<outcome, faults>>
  ELSE /\ faults < MaxFaults
       /\ faults' = faults + 1
       /\ pc' = [pc EXCEPT ![r] = "done"]
       /\ outcome' = [outcome EXCEPT ![r] = Panicked]
       /\ UNCHANGED sent

EdgeCall(method, path, body) ==
  [origin |-> "edge", method |-> method, path |-> path, body |-> body]

\* GET /
root(r, dirOk) ==
  /\ CanIssue(r)
  /\ call' = [call EXCEPT ![r] = EdgeCall("GET", "/", <<>>)]
  /\ Observe(r)
  /\ fetch_chatroom(r, [method |-> "GET", path |-> "/", body |-> <<>>],
                    dirOk)
  /\ UNCHANGED <<messages, result, arrivals, pushed>>

\* GET /api/messages
get_messages(r, dirOk) ==
  /\ CanIssue(r)
  /\ call' = [call EXCEPT ![r] = EdgeCall("GET", "/api/messages", <<>>)]
  /\ Observe(r)
  /\ fetch_chatroom(r, [method |-> "GET", path |-> "/messages",
                        body |-> <<>>], dirOk)
  /\ UNCHANGED <<messages, result, arrivals, pushed>>

\* An extractor that takes the empty string for a missing field.
ExtractJsonDefault(body) ==
  LET o == ParseObject(body, 1) IN
  IF from_str_Message(body).ok THEN from_str_Message(body)
  ELSE IF o.ok /\ o.next = Len(body) + 1 THEN Ok([content |-> <<>>])
  ELSE Err

\* axum::extract::Json<Message>: the body parsed as a Message.
ExtractJson(body) == from_str_Message(body)

\* POST /api/messages
post_messages(r, body, dirOk) ==
  /\ CanIssue(r)
  /\ call' = [call EXCEPT ![r] = EdgeCall("POST", "/api/messages", body)]
  /\ Observe(r)
  /\ LET payload == ExtractJson(body) IN
     IF payload.ok
     THEN fetch_chatroom(r, [method |-> "POST", path |-> "/messages",
                             body |-> to_string_Message(payload.val)],
                         dirOk)
     ELSE /\ dirOk
          /\ pc' = [pc EXCEPT ![r] = "done"]
          /\ outcome' = [outcome EXCEPT ![r] = Rejected]
          /\ UNCHANGED <<sent, faults>>
  /\ UNCHANGED <<messages, result, arrivals, pushed>>

\* A request given directly to a stub of the object, by a caller that holds
\* the namespace binding; any method, any path.
stub_fetch(r, req) ==
  /\ CanIssue(r)
  /\ call' = [call EXCEPT ![r] =
                [origin |-> "stub", method |-> req.method,
                 path |-> req.path, body |-> req.body]]
  /\ Observe(r)
  /\ fetch_chatroom(r, req, TRUE)
  /\ UNCHANGED <<messages, result, arrivals, pushed>>

\* The request is lost on its way to the object: fetch_with_request gives
\* Err, which fetch_chatroom returns and the handler unwraps.
TransportDrop(r) ==
  /\ pc[r] = "sent"
  /\ faults < MaxFaults
  /\ faults' = faults + 1
  /\ pc' = [pc EXCEPT ![r] = "done"]
  /\ outcome' = [outcome EXCEPT ![r] = Panicked]
  /\ UNCHANGED <<messages, call, sent, result, arrivals, pushed, obs>>

\* ------------------------------------------------------------------------
\* The Durable Object

\* The branch of Chatroom::fetch that a request takes.
Dispatch(req) ==
  IF req.path = "/" THEN "null"
  ELSE IF req.path = "/messages"
    THEN IF req.method = "GET" THEN "list"
         ELSE IF req.method = "POST" THEN "append"
         ELSE "todo"
  ELSE "todo"

\* Response::from_json(&None::<()>)
NullResult == [kind |-> "ok", text |-> <<"null">>]

\* A list that leaves out the oldest message.
ListResultSkipFirst(log) ==
  [kind |-> "ok",
   text |-> to_string_MessageList(IF log = <<>> THEN <<>> ELSE Tail(log))]

\* A list of a new, empty vector.
ListResultEmpty(log) == [kind |-> "ok", text |-> to_string_MessageList(<<>>)]

\* The GET branch: Response::from_json(&MessageList { messages:
\* self.messages.clone() })
ListResult(log) == [kind |-> "ok", text |-> to_string_MessageList(log)]

\* An answer with the new message only.
AppendResultNewOnly(log) ==
  [kind |-> "ok", text |-> to_string_MessageList(<<log[Len(log)]>>)]

\* The POST branch after the push: Response::from_json(&MessageList {
\* messages: self.messages.clone() })
AppendResult(log) == [kind |-> "ok", text |-> to_string_MessageList(log)]

\* todo!() and unwrap() of Err: the handler panics and answers nothing.
PanicResult == [kind |-> "panic", text |-> <<>>]

\* An assignment of the new message in place of the push.
push_replace(log, new_message) == <<new_message>>

\* An insertion at the front.
push_front(log, new_message) == <<new_message>> \o log

\* A push that is done twice.
push_twice(log, new_message) == log \o <<new_message, new_message>>

\* self.messages.push(new_message)
push(log, new_message) == Append(log, new_message)

\* The request reaches the object, which is created when it does not exist
\* yet, and Chatroom::fetch runs up to its first await: to its end for
\* every request but a POST on /messages, which waits for req.text().
Chatroom_fetch(r) ==
  /\ pc[r] = "sent"
  /\ LET id == sent[r].stub
         req == sent[r].req
         branch == Dispatch(req)
     IN /\ messages' = Put(messages, id, LogOf(id))
        /\ pushed' = Put(pushed, id, PushedOf(id))
        /\ arrivals' = Append(arrivals, r)
        /\ IF branch = "append"
           THEN /\ pc' = [pc EXCEPT ![r] = "reading"]
                /\ UNCHANGED result
           ELSE /\ pc' = [pc EXCEPT ![r] = "responding"]
                /\ result' = [result EXCEPT ![r] =
                     IF branch = "null" THEN NullResult
                     ELSE IF branch = "list" THEN ListResult(LogOf(id))
                     ELSE PanicResult]
  /\ UNCHANGED <<call, sent, outcome, obs, faults>>

\* A POST branch that goes on only when no other fetch awaits its body.
Chatroom_fetch_resume_locked(r, bodyOk) ==
  /\ pc[r] = "reading"
  /\ \A q \in Reqs \ {r} : pc[q] # "reading"
  /\ IF bodyOk THEN UNCHANGED faults
     ELSE faults < MaxFaults /\ faults' = faults + 1
  /\ LET id == sent[r].stub
         new_message == from_str_Message(sent[r].req.body)
     IN IF bodyOk /\ new_message.ok
        THEN /\ messages' = [messages EXCEPT
                               ![id] = Append(messages[id], new_message.val)]
             /\ pushed' = [pushed EXCEPT ![id] = Append(pushed[id], r)]
             /\ result' = [result EXCEPT ![r] =
                  [kind |-> "ok",
                   text |-> to_string_MessageList(messages'[id])]]
        ELSE /\ result' = [result EXCEPT ![r] =
                  [kind |-> "panic", text |-> <<>>]]
             /\ UNCHANGED <<messages, pushed>>
  /\ pc' = [pc EXCEPT ![r] = "responding"]
  /\ UNCHANGED <<call, sent, outcome, arrivals, obs>>

\* The await of req.text() ends and the POST branch runs to its end: with
\* the body, or with Err, which the branch unwraps.
Chatroom_fetch_resume(r, bodyOk) ==
  /\ pc[r] = "reading"
  /\ IF bodyOk THEN UNCHANGED faults
     ELSE faults < MaxFaults /\ faults' = faults + 1
  /\ LET id == sent[r].stub
         new_message == from_str_Message(sent[r].req.body)
     IN IF bodyOk /\ new_message.ok
        THEN /\ messages' = [messages EXCEPT
                               ![id] = push(messages[id], new_message.val)]
             /\ pushed' = [pushed EXCEPT ![id] = Append(pushed[id], r)]
             /\ result' = [result EXCEPT ![r] = AppendResult(messages'[id])]
        ELSE /\ result' = [result EXCEPT ![r] = PanicResult]
             /\ UNCHANGED <<messages, pushed>>
  /\ pc' = [pc EXCEPT ![r] = "responding"]
  /\ UNCHANGED <<call, sent, outcome, arrivals, obs>>

\* ------------------------------------------------------------------------
\* The rest of the handlers

\* What the handler makes of Ok(response) of fetch_chatroom.
HandlerOutcome(c, response) ==
  IF c.origin = "stub" THEN RawOutcome(response)
  ELSE IF c.path = "/" THEN RawOutcome(quote(response))
  ELSE LET parsed == from_str_MessageList(response) IN
       IF parsed.ok THEN JsonOutcome(parsed.val) ELSE Panicked

\* A return that sends the request again when the response is lost.
fetch_chatroom_return_retry(r, transportOk) ==
  /\ pc[r] = "responding"
  /\ IF transportOk
     THEN /\ UNCHANGED faults
          /\ pc' = [pc EXCEPT ![r] = "done"]
          /\ outcome' = [outcome EXCEPT ![r] =
               IF result[r].kind = "ok"
               THEN HandlerOutcome(call[r], result[r].text)
               ELSE Panicked]
     ELSE /\ faults < MaxFaults
          /\ faults' = faults + 1
          /\ pc' = [pc EXCEPT ![r] = "sent"]
          /\ UNCHANGED outcome
  /\ UNCHANGED <<messages, call, sent, result, arrivals, pushed, obs>>

\* The await of fetch_with_request(req) and of text() ends, with the
\* response or, when the object panicked or the transport failed, with
\* Err, which the handler unwraps.
fetch_chatroom_return(r, transportOk) ==
  /\ pc[r] = "responding"
  /\ IF transportOk THEN UNCHANGED faults
     ELSE faults < MaxFaults /\ faults' = faults + 1
  /\ pc' = [pc EXCEPT ![r] = "done"]
  /\ outcome' = [outcome EXCEPT ![r] =
       IF transportOk /\ result[r].kind = "ok"
       THEN HandlerOutcome(call[r], result[r].text)
       ELSE Panicked]
  /\ UNCHANGED <<messages, call, sent, result, arrivals, pushed, obs>>

\* ------------------------------------------------------------------------
\* Specifications

Actor ==
  \E r \in Reqs :
    \/ Chatroom_fetch(r)
    \/ \E bodyOk \in BOOLEAN : Chatroom_fetch_resume(r, bodyOk)

Transport ==
  \E r \in Reqs :
    \/ TransportDrop(r)
    \/ \E transportOk \in BOOLEAN : fetch_chatroom_return(r, transportOk)

Edge ==
  \E r \in Reqs, dirOk \in BOOLEAN :
    \/ root(r, dirOk)
    \/ get_messages(r, dirOk)
    \/ \E body \in Bodies : post_messages(r, body, dirOk)

\* Requests that the handlers of the edge never build.
DirectRequests ==
  {[method |-> m, path |-> "/messages", body |-> <<>>] :
     m \in Methods \ {"GET", "POST"}}
  \cup {[method |-> m, path |-> "/other", body |-> <<>>] :
          m \in {"GET", "POST"}}

Direct == \E r \in Reqs, req \in DirectRequests : stub_fetch(r, req)

Next == Edge \/ Actor \/ Transport

\* Every call comes through the router of the edge worker.
Spec == Init /\ [][Next]_vars

\* A well-formed POST through the edge, with the directory available.
Populate ==
  \E r \in Reqs :
    post_messages(r, to_string_Message([content |-> <<"a">>]), TRUE)

\* The response reaches the caller.
Deliver == \E r \in Reqs : fetch_chatroom_return(r, TRUE)

NextDirect == Direct \/ Populate \/ Actor \/ Deliver

\* Callers with the namespace binding also send requests of their own.
SpecDirect == Init /\ [][NextDirect]_vars

\* The calls of the edge with the directory available.
EdgeOk ==
  \E r \in Reqs :
    \/ root(r, TRUE)
    \/ get_messages(r, TRUE)
    \/ \E body \in Bodies : post_messages(r, body, TRUE)

\* The steps of the object with the body read.
ActorOk ==
  \E r \in Reqs : Chatroom_fetch(r) \/ Chatroom_fetch_resume(r, TRUE)

NextLive == EdgeOk \/ ActorOk \/ Deliver

\* The event loops run every continuation that is ready: the body of a
\* delivered request is read and the response of the object reaches the
\* handler.
Fairness ==
  \A r \in Reqs :
    /\ WF_vars(Chatroom_fetch_resume(r, TRUE))
    /\ WF_vars(fetch_chatroom_return(r, TRUE))

\* No failure of the platform, fair scheduling.
SpecLive == Init /\ [][NextLive]_vars /\ Fairness

\* ------------------------------------------------------------------------
\* Properties

IsPrefix(s, t) == Len(s) <= Len(t) /\ SubSeq(t, 1, Len(s)) = s

InSeq(s, x) == \E k \in 1..Len(s) : s[k] = x

IndexOf(s, x) == CHOOSE k \in 1..Len(s) : s[k] = x

\* Number of positions of s that hold x.
Count(s, x) == Cardinality({k \in 1..Len(s) : s[k] = x})

\* What from_str::<Message> makes of each body of an external POST call.
ReadOf == [body \in Bodies |-> from_str_Message(body)]

\* The call is a POST /api/messages with a body that is a Message.
WellFormedPost(r) ==
  /\ call[r].origin = "edge"
  /\ call[r].method = "POST"
  /\ ReadOf[call[r].body].ok

\* The message that the caller posted.
Posted(r) == ReadOf[call[r].body].val

\* The call is a GET /api/messages.
IsList(r) ==
  /\ call[r].origin = "edge"
  /\ call[r].method = "GET"
  /\ call[r].path = "/api/messages"

\* The caller got a log.
Answered(r) == pc[r] = "done" /\ outcome[r].kind = "json"

\* C1: once all the well-formed POSTs issued, concurrently or not, have
\* been answered with a log, the log has one entry for each of them: its
\* length is their number and every message is in it as often as it was
\* posted.
C1_NoAppendLostOrDuplicated ==
  LET posts == {r \in Reqs : WellFormedPost(r)} IN
  (\A r \in posts : Answered(r))
    => /\ Len(TheLog) = Cardinality(posts)
       /\ \A r \in posts :
            Count(TheLog, Posted(r))
              = Cardinality({q \in posts : Posted(q) = Posted(r)})

\* All the calls are well-formed POSTs that were in progress in the object
\* at the same time, and all are answered.
C1_Witness ==
  /\ \A r \in Reqs : WellFormedPost(r) /\ Answered(r)
  /\ ThePushed # arrivals

\* C2: no step removes, changes or reorders a message: the log of every
\* object before a step is a prefix of its log after the step.
C2_AppendOnly ==
  [][\A id \in DOMAIN messages :
       id \in DOMAIN messages' /\ IsPrefix(messages[id], messages'[id])]_vars

\* An Append has acted on a log that was not empty.
C2_Witness == Len(TheLog) >= 2

\* C3: the answer of every Append that the object has processed is the log
\* up to and including the caller's own message, which is the last element;
\* it is what the caller gets.
C3_AppendReturnsUpdatedLog ==
  \A r \in Reqs :
    (WellFormedPost(r) /\ result[r].kind = "ok")
      => LET id == sent[r].stub
             k == IndexOf(pushed[id], r)
             answer == from_str_MessageList(result[r].text)
         IN /\ InSeq(pushed[id], r)
            /\ Count(pushed[id], r) = 1
            /\ messages[id][k] = Posted(r)
            /\ answer = Ok(SubSeq(messages[id], 1, k))
            /\ Answered(r) => outcome[r].messages = answer.val

\* An Append was processed while an Append that had arrived before it was
\* still waiting for its body.
C3_Witness ==
  \E r, q \in Reqs :
    /\ WellFormedPost(r) /\ result[r].kind = "ok"
    /\ WellFormedPost(q) /\ pc[q] = "reading"
    /\ arrivals = <<q, r>>

\* The request of the call asks the object for an Append.
IsAppend(r) == InSeq(arrivals, r) /\ Dispatch(sent[r].req) = "append"

\* C4: at most one operation is in progress inside the object at any time.
C4_OneOperationAtATime ==
  Cardinality({r \in Reqs : pc[r] = "reading"}) <= 1

\* C5: Appends are pushed in the order of their arrival at the object: when
\* an Append has been pushed, every Append that arrived before it has been
\* pushed before it.
C5_FifoOrder ==
  \A a, b \in Reqs :
    (/\ IsAppend(a) /\ IsAppend(b)
     /\ sent[a].stub = sent[b].stub
     /\ IndexOf(arrivals, a) < IndexOf(arrivals, b)
     /\ InSeq(PushedOf(sent[b].stub), b))
      => /\ InSeq(PushedOf(sent[a].stub), a)
         /\ IndexOf(PushedOf(sent[a].stub), a)
              < IndexOf(PushedOf(sent[b].stub), b)

\* C6: the log that a List returns is a prefix of the log of the object in
\* every later state, hence of the final order of the Appends, and it is not
\* shorter than the log was when the List was issued.
C6_ListIsPrefix ==
  \A r \in Reqs :
    (IsList(r) /\ Answered(r))
      => /\ IsPrefix(outcome[r].messages, TheLog)
         /\ obs[r].len <= Len(outcome[r].messages)

\* A List was issued on the empty log and returns a message: an Append
\* was processed between its issue and its answer.
C6_Witness ==
  \E r \in Reqs :
    /\ IsList(r) /\ Answered(r)
    /\ obs[r].len = 0
    /\ Len(outcome[r].messages) = 1

\* C7: every call of the edge reaches the one object of the name CHATROOM:
\* no other object holds a log, and the message of every Append that was
\* acknowledged before a List was issued is in the log that the List returns,
\* at the position of its push.
C7_SingleInstance ==
  /\ DOMAIN messages \subseteq {id_from_name(CHATROOM)}
  /\ \A r \in Reqs : pc[r] \notin {"idle", "done"} \/ InSeq(arrivals, r)
       => sent[r].stub = id_from_name(CHATROOM)
  /\ \A g \in Reqs :
       (IsList(g) /\ Answered(g))
         => \A r \in obs[g].acked :
              WellFormedPost(r)
                => \E k \in 1..Len(outcome[g].messages) :
                     /\ k <= Len(ThePushed)
                     /\ ThePushed[k] = r
                     /\ outcome[g].messages[k] = Posted(r)

\* A List that was issued after the acknowledgement of an Append is answered.
C7_Witness ==
  \E g, r \in Reqs :
    /\ IsList(g) /\ Answered(g)
    /\ WellFormedPost(r) /\ r \in obs[g].acked

\* The call is a POST /api/messages with a body that is no Message.
MalformedPost(c) ==
  /\ c.origin = "edge"
  /\ c.method = "POST"
  /\ ~from_str_Message(c.body).ok

\* C8: a POST whose body is no Message is answered InvalidRequestBody when
\* it is issued; that step changes no log and sends nothing, and the call
\* never reaches the object.
C8_MalformedRejected ==
  /\ [](\A r \in Reqs :
          MalformedPost(call[r])
            => /\ pc[r] = "done"
               /\ outcome[r] = Rejected
               /\ sent[r] = NoSent
               /\ result[r] = NoResult
               /\ ~InSeq(arrivals, r))
  /\ [][\A r \in Reqs :
          (pc[r] = "idle" /\ MalformedPost(call'[r]))
            => messages' = messages /\ sent' = sent
               /\ arrivals' = arrivals]_vars

\* A POST of the body {} was rejected when the log held a message.
C8_Witness ==
  \E r \in Reqs :
    /\ call[r].body = EmptyObjectBody
    /\ outcome[r] = Rejected
    /\ obs[r].len = 1
    /\ Len(TheLog) = 1

\* C9: every call of the edge that has ended was answered by its handler:
\* no failure on the way ends it in a panic.
C9_FailuresAnswered ==
  \A r \in Reqs :
    (call[r].origin = "edge" /\ pc[r] = "done")
      => outcome[r].kind # "panic"

\* C10: a request that is neither GET /, GET /messages nor POST /messages is
\* answered by the object with an error value, which its caller gets.
C10_UnsupportedAnswered ==
  \A r \in Reqs :
    (InSeq(arrivals, r) /\ Dispatch(sent[r].req) = "todo")
      => /\ result[r].kind # "panic"
         /\ pc[r] = "done" => outcome[r].kind # "panic"

\* The step leaves every log as it is; an object that the step creates
\* has the empty log.
LogsUnchanged ==
  \A id \in DOMAIN messages' :
    messages'[id] = IF id \in DOMAIN messages THEN messages[id] ELSE <<>>

\* The step is the run of Chatroom::fetch for the request of call r.
Fetched(r) == pc[r] = "sent" /\ InSeq(arrivals', r)

\* C11: the run of Chatroom::fetch for a request that is neither GET /,
\* GET /messages nor POST /messages leaves every log as it was.
C11_UnsupportedKeepsLog ==
  [][\A r \in Reqs :
       (Fetched(r) /\ sent[r].req.path # "/"
        /\ ~(sent[r].req.path = "/messages"
             /\ sent[r].req.method \in {"GET", "POST"}))
         => LogsUnchanged /\ DOMAIN messages \subseteq DOMAIN messages']_vars

\* An unsupported request was fetched by the object when its log held a
\* message, and the log still holds it.
C11_Witness ==
  \E r \in Reqs :
    /\ call[r].origin = "stub"
    /\ InSeq(arrivals, r)
    /\ obs[r].len = 1
    /\ Len(TheLog) = 1

\* C12: the run of Chatroom::fetch for GET /messages leaves every log as it
\* was and answers the log of the object as it is, which is what the caller
\* of GET /api/messages gets.
C12_ListVerbatimNoEffect ==
  /\ [][\A r \in Reqs :
          (Fetched(r) /\ sent[r].req.path = "/messages"
           /\ sent[r].req.method = "GET")
            => /\ LogsUnchanged
               /\ from_str_MessageList(result'[r].text)
                    = Ok(messages'[sent[r].stub])]_vars
  /\ [](\A r \in Reqs :
          (IsList(r) /\ Answered(r))
            => Ok(outcome[r].messages) = from_str_MessageList(result[r].text))

\* A List was answered with the log, which was not empty.
C12_Witness ==
  \E r \in Reqs :
    /\ IsList(r) /\ Answered(r)
    /\ outcome[r].messages = TheLog
    /\ Len(TheLog) >= 1

\* C13: a POST is delivered to the object at most once and pushed at most
\* once, so the log holds a message at most as often as a delivered POST
\* carried it; a POST that ends without a log has ended in the failure, which
\* its caller sees.
C13_NoSilentRetry ==
  \A r \in Reqs :
    WellFormedPost(r)
      => /\ Count(arrivals, r) <= 1
         /\ Count(ThePushed, r) <= 1
         /\ Count(TheLog, Posted(r))
              <= Cardinality({q \in Reqs : /\ WellFormedPost(q)
                                           /\ Posted(q) = Posted(r)
                                           /\ InSeq(arrivals, q)})
         /\ (pc[r] = "done" /\ ~Answered(r)) => outcome[r].kind = "panic"

\* The response of a POST was lost after its push: the call ended in the
\* failure and its message is in the log once.
C13_Witness ==
  \E r \in Reqs :
    /\ WellFormedPost(r)
    /\ pc[r] = "done" /\ outcome[r].kind = "panic"
    /\ InSeq(ThePushed, r)
    /\ Count(TheLog, Posted(r)) = 1

\* C14: an Append that has reached the object and whose fetch has ended was
\* applied: its message is in the log at the position of its push, whatever
\* its caller got.
C14_ReachedIsApplied ==
  \A r \in Reqs :
    (IsAppend(r) /\ pc[r] \in {"responding", "done"})
      => /\ InSeq(ThePushed, r)
         /\ TheLog[IndexOf(ThePushed, r)] = Posted(r)

\* The calls before g are well-formed POSTs, each issued after the answer
\* of the one before it, and g was issued after the answer of the last.
SequentialPostsBefore(g) ==
  \A r \in 1..(g - 1) :
    /\ WellFormedPost(r)
    /\ r \in obs[g].acked
    /\ \A q \in 1..(r - 1) : q \in obs[r].acked

C16_AppendLogsOrdered ==
  \A r, q \in Reqs :
    (r # q /\ WellFormedPost(r) /\ Answered(r)
     /\ WellFormedPost(q) /\ Answered(q))
      => /\ Len(outcome[r].messages) # Len(outcome[q].messages)
         /\ \/ IsPrefix(outcome[r].messages, outcome[q].messages)
            \/ IsPrefix(outcome[q].messages, outcome[r].messages)

\* Two Appends were answered, and the one issued later got the shorter log.
C16_Witness ==
  \E r, q \in Reqs :
    /\ q < r
    /\ WellFormedPost(r) /\ Answered(r)
    /\ WellFormedPost(q) /\ Answered(q)
    /\ Len(outcome[r].messages) < Len(outcome[q].messages)

\* Bodies of POST calls, character by character, with the content string
\* that each submits.
Submissions ==
  {<< <<"{", DQ, "content", DQ, ":", DQ, "a", DQ, "}">>, <<"a">> >>,
   << <<"{", DQ, "content", DQ, ":", DQ, "b", BS, DQ, BS, BS, DQ, "}">>,
      <<"b", DQ, BS>> >>,
   << <<"{", DQ, "content", DQ, ":", DQ, "a", DQ, ",", DQ, "x", DQ, ":",
        DQ, "b", DQ, "}">>, <<"a">> >>}

\* C17: the content string that a POST submits is the content of the
\* message in the request sent to the object, of the message in the log and
\* of the message in the log that the caller gets.
C17_ContentRoundTrip ==
  \A r \in Reqs : \A sub \in Submissions :
    (call[r].origin = "edge" /\ call[r].method = "POST"
     /\ call[r].body = sub[1])
      => /\ sent[r] # NoSent
              => from_str_Message(sent[r].req.body) = Ok([content |-> sub[2]])
         /\ InSeq(ThePushed, r)
              => TheLog[IndexOf(ThePushed, r)].content = sub[2]
         /\ Answered(r)
              => outcome[r].messages[Len(outcome[r].messages)].content
                   = sub[2]

\* A content with a quote and a backslash was posted and came back in the
\* answer.
C17_Witness ==
  \E r \in Reqs :
    /\ call[r].body
         = <<"{", DQ, "content", DQ, ":", DQ, "b", BS, DQ, BS, BS, DQ, "}">>
    /\ Answered(r)
    /\ outcome[r].messages[Len(outcome[r].messages)].content
         = <<"b", DQ, BS>>

\* C18: a call whose directory lookup, id or stub fails ends at once: the
\* step sends no request, changes no log and delivers nothing to the
\* object, and the call never reaches the object.
C18_DirectoryFailureNoEffect ==
  /\ [][\A r \in Reqs :
          (pc[r] = "idle" /\ pc'[r] # "idle" /\ faults' # faults)
            => /\ pc'[r] = "done"
               /\ sent' = sent
               /\ messages' = messages
               /\ arrivals' = arrivals]_vars
  /\ [](\A r \in Reqs :
          (pc[r] = "done" /\ sent[r] = NoSent) => ~InSeq(arrivals, r))

\* A call failed in the directory when the log held a message, and the log
\* holds it still.
C18_Witness ==
  \E r \in Reqs :
    /\ pc[r] = "done" /\ outcome[r].kind = "panic"
    /\ sent[r] = NoSent
    /\ obs[r].len = 1
    /\ Len(TheLog) = 1

\* C19: the log of every object has one message for every push that the
\* object has executed, which is the message of a POST that the edge accepted
\* and delivered; a log changes only in the step of the object that pushes.
C19_LogOwnedByActor ==
  /\ [](\A id \in DOMAIN messages :
          /\ Len(messages[id]) = Len(pushed[id])
          /\ \A k \in 1..Len(pushed[id]) :
               /\ WellFormedPost(pushed[id][k])
               /\ InSeq(arrivals, pushed[id][k])
               /\ messages[id][k] = Posted(pushed[id][k]))
  /\ [][(\E id \in DOMAIN messages : messages'[id] # messages[id])
          => \E r \in Reqs : pc[r] = "reading" /\ pc'[r] = "responding"]_vars

\* A GET / was answered when the log held a message, and the log holds it
\* still.
C19_Witness ==
  \E r \in Reqs :
    /\ call[r].origin = "edge" /\ call[r].path = "/"
    /\ pc[r] = "done" /\ outcome[r].kind = "raw"
    /\ obs[r].len = 1
    /\ Len(TheLog) = 1

\* C20: with no failure and fair scheduling, every List and every Append
\* that has reached the object is eventually answered with a log.
C20_EventuallyAnswered ==
  \A r \in Reqs :
    (InSeq(arrivals, r) /\ Dispatch(sent[r].req) \in {"list", "append"})
      ~> Answered(r)

\* Two Appends that awaited their bodies at the same time were both
\* answered.
C20_Witness ==
  /\ \A r \in Reqs : WellFormedPost(r) /\ Answered(r)
  /\ \A r, q \in Reqs : q \notin obs[r].acked
  /\ ThePushed # arrivals
  /\ faults = 0

====
